---------------------------- MODULE Spec2Model ----------------------------
(***************************************************************************)
(* Form-state and validation engine of the OpenShift Partner Labs agents   *)
(* backend: the field validators (app/services/validation.py), the         *)
(* in-memory SessionManager (common/services/session_manager.py) and the   *)
(* agent tools working on the module-level form (app/agents/tools.py).     *)
(*                                                                         *)
(* Python values are records [type, val]; a str is its sequence of         *)
(* one-character strings, so that regular expressions, strip() and len()   *)
(* are computed on the characters.  Field names are atoms.  A dict is the  *)
(* sequence of its items in insertion order.  Time is counted in whole     *)
(* hours; uuid4() values are the naturals 1, 2, ... in allocation order.   *)
(***************************************************************************)
EXTENDS Integers, Sequences, FiniteSets, TLC

(***************************************************************************)
(* Bounds of the model.                                                    *)
(***************************************************************************)
MaxSessions == 2
MaxTime == 26
MaxCalls == 2
NumThreads == 2
MaxConversations == 2

(***************************************************************************)
(* Python values.                                                          *)
(***************************************************************************)
PyStr(s) == [type |-> "str", val |-> s]
PyNone == [type |-> "NoneType", val |-> <<>>]
PyBool(b) == [type |-> "bool", val |-> IF b THEN <<"1">> ELSE <<"0">>]
PyInt(d) == [type |-> "int", val |-> d]
PyList(items) == [type |-> "list", val |-> items]

PyTrue == PyBool(TRUE)
PyFalse == PyBool(FALSE)

\* bool(v): the truth value Python gives `not v` / `if v`.
Truthy(v) ==
    CASE v.type = "str" -> v.val # <<>>
      [] v.type = "NoneType" -> FALSE
      [] v.type = "bool" -> v.val = <<"1">>
      [] v.type = "int" -> v.val # <<"0">>
      [] v.type = "list" -> v.val # <<>>
      [] OTHER -> TRUE

isinstance_str(v) == v.type = "str"

(***************************************************************************)
(* Character classes of the regular expressions.                           *)
(***************************************************************************)
Lower == {"a","b","c","d","e","f","g","h","i","j","k","l","m",
          "n","o","p","q","r","s","t","u","v","w","x","y","z"}
Upper == {"A","B","C","D","E","F","G","H","I","J","K","L","M",
          "N","O","P","Q","R","S","T","U","V","W","X","Y","Z"}
Digit == {"0","1","2","3","4","5","6","7","8","9"}
Whitespace == {" ", "\t", "\n", "\r"}
LocalChars == Lower \cup Upper \cup Digit \cup {".", "_", "%", "+", "-"}
DomainChars == Lower \cup Upper \cup Digit \cup {".", "-"}

AllIn(s, lo, hi, class) == \A i \in lo..hi : s[i] \in class

\* `$` of re.match: the end of the string, or just before one final newline.
DollarEnds(s) ==
    {Len(s)} \cup (IF Len(s) > 0 /\ s[Len(s)] = "\n" THEN {Len(s) - 1} ELSE {})

\* str.strip(): the string without its leading and trailing whitespace.
RECURSIVE LStrip(_)
LStrip(s) == IF s # <<>> /\ Head(s) \in Whitespace THEN LStrip(Tail(s)) ELSE s
RECURSIVE RStrip(_)
RStrip(s) ==
    IF s # <<>> /\ s[Len(s)] \in Whitespace
    THEN RStrip(SubSeq(s, 1, Len(s) - 1)) ELSE s
Strip(s) == RStrip(LStrip(s))

(***************************************************************************)
(* FieldValidator.                                                         *)
(***************************************************************************)
ALLOWED_LEASE_DURATIONS == {<<"1","d">>, <<"2","d">>, <<"1","w">>, <<"2","w">>, <<"1","m">>}
ALLOWED_APPLICATION_TYPES ==
    {<<"w","o","r","k","l","o","a","d">>,
     <<"i","n","f","r","a","s","t","r","u","c","t","u","r","e">>}
ALLOWED_REQUEST_TYPES ==
    {<<"g","e","n","e","r","a","l">>, <<"e","n","g","i","n","e","e","r","i","n","g">>,
     <<"r","o","s","a">>, <<"n","v","i","d","i","a">>,
     <<"v","i","r","t","u","a","l","i","z","a","t","i","o","n">>, <<"a","i">>}
ALLOWED_CLUSTER_SIZES ==
    {<<"s","m","a","l","l">>, <<"m","e","d","i","u","m">>, <<"l","a","r","g","e">>, <<"x","l">>}
ALLOWED_CLOUD_PROVIDERS ==
    {<<"a","w","s">>, <<"g","c","p">>, <<"a","z","u","r","e">>, <<"i","b","m">>}

\* ^[a-zA-Z0-9._%+-]+@[a-zA-Z0-9.-]+\.[a-zA-Z]{2,}$
EmailMatches(s) ==
    \E e \in DollarEnds(s) : \E at \in 2..e : \E dot \in (at + 2)..e :
        /\ s[at] = "@"
        /\ AllIn(s, 1, at - 1, LocalChars)
        /\ AllIn(s, at + 1, dot - 1, DomainChars)
        /\ s[dot] = "."
        /\ e - dot >= 2
        /\ AllIn(s, dot + 1, e, Lower \cup Upper)

validate_email(email) ==
    IF ~Truthy(email) \/ ~isinstance_str(email) THEN FALSE
    ELSE EmailMatches(email.val)

\* ^4\.\d+(\.\d+)?$
VersionMatches(s) ==
    \E e \in DollarEnds(s) :
        /\ e >= 3
        /\ s[1] = "4"
        /\ s[2] = "."
        /\ \/ AllIn(s, 3, e, Digit)
           \/ \E dot \in 4..(e - 1) :
                /\ s[dot] = "."
                /\ AllIn(s, 3, dot - 1, Digit)
                /\ AllIn(s, dot + 1, e, Digit)

validate_openshift_version(version) ==
    IF ~Truthy(version) \/ ~isinstance_str(version) THEN FALSE
    ELSE VersionMatches(version.val)

\* pytz.timezone(name) succeeds for the names of the timezone database; the
\* model's database holds these.
KnownTimezones == {<<"U","T","C">>, <<"E","u","r","o","p","e","/","R","o","m","e">>}

validate_timezone(timezone) ==
    IF ~Truthy(timezone) \/ ~isinstance_str(timezone) THEN FALSE
    ELSE timezone.val \in KnownTimezones

validate_lease_duration(duration) ==
    duration.type = "str" /\ duration.val \in ALLOWED_LEASE_DURATIONS
validate_application_type(app_type) ==
    app_type.type = "str" /\ app_type.val \in ALLOWED_APPLICATION_TYPES
validate_request_type(request_type) ==
    request_type.type = "str" /\ request_type.val \in ALLOWED_REQUEST_TYPES
validate_cluster_size(size) ==
    size.type = "str" /\ size.val \in ALLOWED_CLUSTER_SIZES
\* Faulty variant: surrounding whitespace is ignored.
validate_cloud_provider_stripped(provider) ==
    provider.type = "str" /\ Strip(provider.val) \in ALLOWED_CLOUD_PROVIDERS
validate_cloud_provider(provider) ==
    provider.type = "str" /\ provider.val \in ALLOWED_CLOUD_PROVIDERS

\* str.replace('Z', '+00:00')
RECURSIVE ReplaceZ(_)
ReplaceZ(s) ==
    IF s = <<>> THEN <<>>
    ELSE IF Head(s) = "Z" THEN <<"+","0","0",":","0","0">> \o ReplaceZ(Tail(s))
    ELSE <<Head(s)>> \o ReplaceZ(Tail(s))

\* datetime.fromisoformat on the forms the model's inputs take: a calendar date
\* YYYY-MM-DD, alone or followed by T00:00:00 and optionally +00:00.
IsoDateOnly(s) ==
    /\ Len(s) = 10
    /\ AllIn(s, 1, 4, Digit) /\ s[5] = "-" /\ AllIn(s, 6, 7, Digit)
    /\ s[8] = "-" /\ AllIn(s, 9, 10, Digit)
    /\ <<s[6], s[7]>> \in {<<"0",d>> : d \in Digit \ {"0"}} \cup {<<"1","0">>, <<"1","1">>, <<"1","2">>}
    /\ <<s[9], s[10]>> \in ({<<a, b>> : a \in {"0","1","2"}, b \in Digit} \ {<<"0","0">>})
                            \cup {<<"3","0">>, <<"3","1">>}
    /\ <<s[1], s[2], s[3], s[4]>> # <<"0","0","0","0">>
MidnightSuffixes ==
    {<<>>, <<"T","0","0",":","0","0",":","0","0">>,
     <<"T","0","0",":","0","0",":","0","0","+","0","0",":","0","0">>}
FromIsoFormatParses(s) ==
    /\ Len(s) >= 10
    /\ IsoDateOnly(SubSeq(s, 1, 10))
    /\ SubSeq(s, 11, Len(s)) \in MidnightSuffixes

validate_date(date_str) ==
    IF ~Truthy(date_str) \/ ~isinstance_str(date_str) THEN FALSE
    ELSE FromIsoFormatParses(ReplaceZ(date_str.val))

\* Faulty variant: the strings 'true' and 'false' and the numbers 0 and 1
\* are taken for booleans.
validate_boolean_coercing(value) ==
    \/ value.type = "bool"
    \/ value.type = "int" /\ value.val \in {<<"0">>, <<"1">>}
    \/ value.type = "str" /\ value.val \in {<<"t","r","u","e">>, <<"f","a","l","s","e">>}
validate_boolean(value) == value.type = "bool"

validate_required_string(value, min_length) ==
    isinstance_str(value) /\ Len(Strip(value.val)) >= min_length


(***************************************************************************)
(* dict: the sequence of its items [k, v] in insertion order.              *)
(***************************************************************************)
EmptyDict == <<>>
DictKeys(d) == {d[i].k : i \in 1..Len(d)}
DictHas(d, key) == key \in DictKeys(d)
DictGet(d, key) == d[CHOOSE i \in 1..Len(d) : d[i].k = key].v
\* d.get(key): None when the key is absent.
DictGetOrNone(d, key) == IF DictHas(d, key) THEN DictGet(d, key) ELSE PyNone
\* Faulty variant of d[key] = value: a new item is added even when the key
\* is present.
DictSetAppending(d, key, value) == Append(d, [k |-> key, v |-> value])

\* d[key] = value: replaces in place, or appends a new key.
DictSet(d, key, value) ==
    IF DictHas(d, key)
    THEN [i \in 1..Len(d) |-> IF d[i].k = key THEN [k |-> key, v |-> value] ELSE d[i]]
    ELSE Append(d, [k |-> key, v |-> value])

(***************************************************************************)
(* validate_field / validate_form_data.  A message is [msg, field,         *)
(* allowed]: the text, the field name and the allowed set it interpolates. *)
(***************************************************************************)
Message(text, field, allowed) == [msg |-> text, field |-> field, allowed |-> allowed]
NoError == Message("None", "", {})
Valid == [ok |-> TRUE, error |-> NoError]
Invalid(m) == [ok |-> FALSE, error |-> m]

\* field_name.endswith("_email"), on the field names of the model.
EmailFieldNames ==
    {"user_email", "contact_email", "primary_contact_email",
     "secondary_contact_email", "sponsor_email", "billing_email"}
endswith_email(field_name) == field_name \in EmailFieldNames

DateFieldNames == {"desired_start_date", "timestamp", "request_eval_date"}
RequiredStringFieldNames ==
    {"company_name", "primary_contact_name", "project_name",
     "description", "scope_of_work", "sponsor_email"}
\* Faulty variant: use_case, a key of the tools' form, is dispatched as well.
OptionalStringFieldNamesAndUseCase ==
    {"secondary_contact_name", "secondary_contact_email", "notes", "cluster_requirements",
     "use_case"}
OptionalStringFieldNames ==
    {"secondary_contact_name", "secondary_contact_email", "notes", "cluster_requirements"}

validate_field(field_name, value) ==
    IF endswith_email(field_name) THEN
        IF ~validate_email(value)
        THEN Invalid(Message("Invalid email format for", field_name, {}))
        ELSE Valid
    ELSE IF field_name = "openshift_version" THEN
        IF ~validate_openshift_version(value)
        THEN Invalid(Message("OpenShift version must be in format 4.y or 4.y.z", "", {}))
        ELSE Valid
    ELSE IF field_name = "timezone" THEN
        IF ~validate_timezone(value)
        THEN Invalid(Message("Invalid timezone. Must be a valid IANA timezone", "", {}))
        ELSE Valid
    ELSE IF field_name = "lease_duration" THEN
        IF ~validate_lease_duration(value)
        THEN Invalid(Message("Lease duration must be one of:", "", ALLOWED_LEASE_DURATIONS))
        ELSE Valid
    ELSE IF field_name = "application_type" THEN
        IF ~validate_application_type(value)
        THEN Invalid(Message("Application type must be one of:", "", ALLOWED_APPLICATION_TYPES))
        ELSE Valid
    ELSE IF field_name = "request_type" THEN
        IF ~validate_request_type(value)
        THEN Invalid(Message("Request type must be one of:", "", ALLOWED_REQUEST_TYPES))
        ELSE Valid
    ELSE IF field_name = "cluster_size" THEN
        IF ~validate_cluster_size(value)
        THEN Invalid(Message("Cluster size must be one of:", "", ALLOWED_CLUSTER_SIZES))
        ELSE Valid
    ELSE IF field_name = "cloud_provider" THEN
        IF ~validate_cloud_provider(value)
        THEN Invalid(Message("Cloud provider must be one of:", "", ALLOWED_CLOUD_PROVIDERS))
        ELSE Valid
    ELSE IF field_name \in DateFieldNames THEN
        IF ~validate_date(value)
        THEN Invalid(Message("Invalid date format for", field_name, {}))
        ELSE Valid
    ELSE IF field_name = "virtualization" THEN
        IF ~validate_boolean(value)
        THEN Invalid(Message("Virtualization must be a boolean value", "", {}))
        ELSE Valid
    ELSE IF field_name \in RequiredStringFieldNames THEN
        IF ~validate_required_string(value, 1)
        THEN Invalid(Message("is required and cannot be empty", field_name, {}))
        ELSE Valid
    ELSE IF field_name \in OptionalStringFieldNames THEN
        IF value # PyNone /\ ~isinstance_str(value)
        THEN Invalid(Message("must be a string or None", field_name, {}))
        ELSE Valid
    ELSE Valid

\* The object passed as field_name: a str carries the name, any other object
\* is a value above.
FieldName(a) == [type |-> "str", name |-> a]

\* Faulty variant of validate_field without its exception handler: the
\* AttributeError of field_name.endswith leaves the function.
validate_field_unguarded(field_name, value) ==
    IF field_name.type # "str" THEN [raised |-> "AttributeError"]
    ELSE validate_field(field_name.name, value)

\* validate_field called with any object as field_name.  An object that is
\* no str has no endswith: the AttributeError is caught by the handler,
\* which returns False and the text of the exception.
validate_field_call(field_name, value) ==
    IF field_name.type # "str"
    THEN Invalid(Message("Validation error: object has no attribute 'endswith'",
                         field_name.type, {}))
    ELSE validate_field(field_name.name, value)

\* Faulty variant: the optional notes field is required as well.
required_fields_with_notes ==
    <<"company_name", "primary_contact_name", "primary_contact_email",
      "sponsor_email", "project_name", "desired_start_date", "lease_duration",
      "timezone", "openshift_version", "application_type", "request_type",
      "cluster_size", "cloud_provider", "description", "scope_of_work", "notes">>

required_fields ==
    <<"company_name", "primary_contact_name", "primary_contact_email",
      "sponsor_email", "project_name", "desired_start_date", "lease_duration",
      "timezone", "openshift_version", "application_type", "request_type",
      "cluster_size", "cloud_provider", "description", "scope_of_work">>

\* The three passes of validate_form_data, each the errors it appends.
MissingRequiredErrors(form_data) ==
    LET Missing(f) == ~DictHas(form_data, f) \/ ~Truthy(DictGet(form_data, f))
        miss == SelectSeq(required_fields, Missing)
    IN  [i \in 1..Len(miss) |-> Message("Required field is missing", miss[i], {})]

FieldErrors(form_data) ==
    LET Bad(item) == ~validate_field(item.k, item.v).ok
        bad == SelectSeq(form_data, Bad)
    IN  [i \in 1..Len(bad) |-> validate_field(bad[i].k, bad[i].v).error]

\* Faulty variant: any truthy virtualization counts, where the code has `is True`.
ConditionalErrorsTruthy(form_data) ==
    IF Truthy(DictGetOrNone(form_data, "virtualization"))
       /\ ~Truthy(DictGetOrNone(form_data, "cluster_requirements"))
    THEN <<Message("cluster_requirements is required when virtualization is True", "", {})>>
    ELSE <<>>

ConditionalErrors(form_data) ==
    IF DictGetOrNone(form_data, "virtualization") = PyTrue
       /\ ~Truthy(DictGetOrNone(form_data, "cluster_requirements"))
    THEN <<Message("cluster_requirements is required when virtualization is True", "", {})>>
    ELSE <<>>

\* Faulty variant: the per-field pass runs before the required-fields pass.
validate_form_data_fields_first(form_data) ==
    LET errors == FieldErrors(form_data) \o MissingRequiredErrors(form_data)
                    \o ConditionalErrors(form_data)
    IN  [ok |-> Len(errors) = 0, errors |-> errors]

validate_form_data(form_data) ==
    LET errors == MissingRequiredErrors(form_data) \o FieldErrors(form_data)
                    \o ConditionalErrors(form_data)
    IN  [ok |-> Len(errors) = 0, errors |-> errors]


(***************************************************************************)
(* State.                                                                  *)
(***************************************************************************)
VARIABLES
    now,        \* datetime.now(), in hours
    sessions,   \* SessionManager._sessions: session id -> SessionData
    nextId,     \* the next value uuid4() returns
    call,       \* the last call made: its name and arguments
    ret,        \* what that call returned
    _form_data, \* app/agents/tools.py: the module-level form of the agent tools
    requests,   \* the rows of the database table "requests"
    submitted,  \* history: how many times submit_form has reported success
    expired_ever, \* history: the ids of the sessions the clock has found expired
    th,         \* the threads calling the SessionManager concurrently
    detached,   \* SessionData objects deleted from the store that a thread still holds
    written,    \* history: for each conversation, the form fields it has written
    checks,     \* history: the results of validate_form_data, as they changed
    held,       \* the mapping a caller holds that get_form_data returned
    db          \* the database session of get_db_session and its caller

vars == <<now, sessions, nextId, call, ret, _form_data, requests, submitted,
          expired_ever, th, detached, written, checks, held, db>>
histVars == <<written, checks>>
auxVars == <<held, db>>
threadVars == <<th, detached>>
sessionVars == <<now, sessions, nextId, expired_ever>>
toolVars == <<_form_data, requests, submitted>>

session_expiry_hours == 24

SessionIds == 1..MaxSessions
Users == {"alice@example.com"}

\* Inputs of the calls.
aws == <<"a","w","s">>
FieldInputs == {"cloud_provider"}
ValueInputs == {PyStr(aws), PyTrue}
\* The clock advances by half the expiry window or one hour more, so that a
\* session is looked at when exactly 24 hours and when 25 hours old.
TickSteps == {12, 13}

RetNone == [kind |-> "None", val |-> <<>>]
RetBool(b) == [kind |-> "bool", val |-> b]
RetInt(n) == [kind |-> "int", val |-> n]
RetId(sid) == [kind |-> "session_id", val |-> sid]
RetSession(s) == [kind |-> "SessionData", val |-> s]
RetDict(d) == [kind |-> "dict", val |-> d]

\* A call: its name and arguments, and the age (hours since last access) the
\* session it names had when the call was made, -1 when the store had none.
Call(op, sid, field, value, age) ==
    [op |-> op, sid |-> sid, field |-> field, value |-> value, age |-> age]
NoCall == Call("none", 0, "", PyNone, -1)
Age(S, sid, t) == IF sid \in DOMAIN S THEN t - S[sid].last_accessed ELSE -1
\* now - last_access > expiry_window
Expired(S, sid, t) == sid \in DOMAIN S /\ t - S[sid].last_accessed > session_expiry_hours

SessionData(session_id, user_email, t) ==
    [session_id |-> session_id, user_email |-> user_email, form_data |-> EmptyDict,
     created_at |-> t, last_accessed |-> t, is_active |-> TRUE]

\* del d[key]
DictDel(S, key) == [k \in DOMAIN S \ {key} |-> S[k]]

(***************************************************************************)
(* SessionManager: each method as the store it leaves and what it returns, *)
(* given the store S and the clock t.                                      *)
(***************************************************************************)
\* Faulty variant: the comparison is >= where the code has >.
is_session_expired_at_boundary(session, t) ==
    LET expiry_time == session.last_accessed + session_expiry_hours
    IN  t >= expiry_time

_is_session_expired(session, t) ==
    LET expiry_time == session.last_accessed + session_expiry_hours
    IN  t > expiry_time

\* Faulty variant: the identifier is the number of sessions in the store plus
\* one, where the code draws a uuid4.
create_session_counting(S, user_email, session_id, t) ==
    LET id == Cardinality(DOMAIN S) + 1
    IN  [store |-> [k \in DOMAIN S \cup {id} |->
                        IF k = id THEN SessionData(id, user_email, t) ELSE S[k]],
         ret |-> RetId(id)]

create_session(S, user_email, session_id, t) ==
    [store |-> [k \in DOMAIN S \cup {session_id} |->
                    IF k = session_id THEN SessionData(session_id, user_email, t) ELSE S[k]],
     ret |-> RetId(session_id)]

delete_session(S, session_id) ==
    IF session_id \in DOMAIN S
    THEN [store |-> DictDel(S, session_id), ret |-> RetBool(TRUE)]
    ELSE [store |-> S, ret |-> RetBool(FALSE)]

\* Faulty variant: an expired session is reported not found and left in the store.
get_session_without_purge(S, session_id, t) ==
    IF session_id \notin DOMAIN S THEN [store |-> S, ret |-> RetNone]
    ELSE IF _is_session_expired(S[session_id], t)
    THEN [store |-> S, ret |-> RetNone]
    ELSE LET T == [S EXCEPT ![session_id].last_accessed = t]
         IN  [store |-> T, ret |-> RetSession(T[session_id])]

\* Faulty variant: the last access is refreshed before the expiry check.
get_session_refresh_first(S, session_id, t) ==
    IF session_id \notin DOMAIN S THEN [store |-> S, ret |-> RetNone]
    ELSE LET T == [S EXCEPT ![session_id].last_accessed = t]
         IN  IF _is_session_expired(T[session_id], t)
             THEN [store |-> delete_session(T, session_id).store, ret |-> RetNone]
             ELSE [store |-> T, ret |-> RetSession(T[session_id])]

\* Faulty variant: the last access is not refreshed.
get_session_without_refresh(S, session_id, t) ==
    IF session_id \notin DOMAIN S THEN [store |-> S, ret |-> RetNone]
    ELSE IF _is_session_expired(S[session_id], t)
    THEN [store |-> delete_session(S, session_id).store, ret |-> RetNone]
    ELSE [store |-> S, ret |-> RetSession(S[session_id])]

get_session(S, session_id, t) ==
    IF session_id \notin DOMAIN S THEN [store |-> S, ret |-> RetNone]
    ELSE IF _is_session_expired(S[session_id], t)
    THEN [store |-> delete_session(S, session_id).store, ret |-> RetNone]
    ELSE LET T == [S EXCEPT ![session_id].last_accessed = t]
         IN  [store |-> T, ret |-> RetSession(T[session_id])]

\* Faulty variant: the write replaces the session's form by the one field.
update_form_data_replacing_form(S, session_id, field_name, value, t) ==
    LET g == get_session(S, session_id, t)
    IN  IF g.ret.kind = "None" THEN [store |-> g.store, ret |-> RetBool(FALSE)]
        ELSE [store |-> [g.store EXCEPT
                            ![session_id].form_data = DictSet(EmptyDict, field_name, value),
                            ![session_id].last_accessed = t],
              ret |-> RetBool(TRUE)]

\* Faulty variant: the write looks the session up in the store itself and so
\* skips get_session's expiry check.
update_form_data_ignoring_expiry(S, session_id, field_name, value, t) ==
    IF session_id \notin DOMAIN S THEN [store |-> S, ret |-> RetBool(FALSE)]
    ELSE [store |-> [S EXCEPT
                        ![session_id].form_data = DictSet(@, field_name, value),
                        ![session_id].last_accessed = t],
          ret |-> RetBool(TRUE)]

update_form_data(S, session_id, field_name, value, t) ==
    LET g == get_session(S, session_id, t)
    IN  IF g.ret.kind = "None" THEN [store |-> g.store, ret |-> RetBool(FALSE)]
        ELSE [store |-> [g.store EXCEPT
                            ![session_id].form_data = DictSet(@, field_name, value),
                            ![session_id].last_accessed = t],
              ret |-> RetBool(TRUE)]

get_form_data(S, session_id, t) ==
    LET g == get_session(S, session_id, t)
    IN  IF g.ret.kind = "None" THEN [store |-> g.store, ret |-> RetDict(EmptyDict)]
        ELSE [store |-> g.store, ret |-> RetDict(g.ret.val.form_data)]

\* The ids of the store in the order the dict iterates them: insertion order,
\* which is allocation order.
StoreOrder(S) == SelectSeq([i \in SessionIds |-> i], LAMBDA i : i \in DOMAIN S)

cleanup_expired_sessions(S, t) ==
    LET expired_sessions ==
            SelectSeq(StoreOrder(S), LAMBDA sid : _is_session_expired(S[sid], t))
        gone == {expired_sessions[i] : i \in 1..Len(expired_sessions)}
    IN  [store |-> [k \in DOMAIN S \ gone |-> S[k]],
         ret |-> RetInt(Len(expired_sessions))]

get_session_summary(S, session_id, t) ==
    LET g == get_session(S, session_id, t)
        session == g.ret.val
    IN  IF g.ret.kind = "None" THEN [store |-> g.store, ret |-> RetDict(EmptyDict)]
        ELSE [store |-> g.store,
              ret |-> RetDict(
                <<[k |-> "session_id", v |-> session.session_id],
                  [k |-> "user_email", v |-> session.user_email],
                  [k |-> "form_data", v |-> session.form_data],
                  [k |-> "created_at", v |-> session.created_at],
                  [k |-> "last_accessed", v |-> session.last_accessed],
                  [k |-> "is_active", v |-> session.is_active],
                  [k |-> "field_count", v |-> Len(session.form_data)]>>)]

(***************************************************************************)
(* The agent tools (app/agents/tools.py).  A tool returns text: RetText    *)
(* keeps its leading mark ("ok" for the check mark, "fail" for the cross,  *)
(* "error" for an "Error ..." text), the sentence and what it interpolates.*)
(***************************************************************************)
RetText(mark, text, args) == [kind |-> "str", val |-> [mark |-> mark, text |-> text, args |-> args]]
\* json.dumps(d): the JSON text of d, kept as the dict it encodes.
RetJson(d) == [kind |-> "json", val |-> d]

ToolFormKeys ==
    <<"user_email", "company_name", "contact_name", "contact_email",
      "openshift_version", "cluster_size", "use_case", "additional_requirements",
      "secondary_contact_name", "secondary_contact_email", "notes">>
InitialFormData == [i \in 1..Len(ToolFormKeys) |-> [k |-> ToolFormKeys[i], v |-> PyStr(<<>>)]]

tool_get_form_data(form) == [form |-> form, ret |-> RetJson(form)]

tool_update_form_data(form, field, value) ==
    IF DictHas(form, field)
    THEN [form |-> DictSet(form, field, value),
          ret |-> RetText("ok", "Successfully updated", <<field, value>>)]
    ELSE [form |-> form,
          ret |-> RetText("fail", "Field not found in form data", <<field>>)]

validate_data(field, value) ==
    LET r == validate_field(field, value)
    IN  IF r.ok THEN RetText("ok", "is valid", <<field, value>>)
        ELSE RetText("fail", "validation failed", <<field, r.error>>)

tool_required_fields ==
    <<"user_email", "company_name", "contact_name", "contact_email",
      "openshift_version", "cluster_size", "use_case">>

\* not _form_data.get(field) or _form_data[field].strip() == ""
ToolFieldMissing(form, field) ==
    \/ ~Truthy(DictGetOrNone(form, field))
    \/ Strip(DictGet(form, field).val) = <<>>
\* .strip() raises AttributeError on a truthy value that is no str.
ToolFieldRaises(form, field) ==
    /\ Truthy(DictGetOrNone(form, field))
    /\ ~isinstance_str(DictGet(form, field))

check_form_completeness(form) ==
    LET missing_fields == SelectSeq(tool_required_fields, LAMBDA f : ToolFieldMissing(form, f))
    IN  IF \E i \in 1..Len(tool_required_fields) : ToolFieldRaises(form, tool_required_fields[i])
        THEN RetText("error", "Error checking form completeness", <<>>)
        ELSE IF missing_fields # <<>>
        THEN RetText("fail", "Form is incomplete. Missing required fields:", missing_fields)
        ELSE RetText("ok", "All required fields are filled. Form is ready for submission.", <<>>)

\* submit_form returns its success text; it reads no form and writes no row.
submit_form(form, rows) ==
    [form |-> form, rows |-> rows,
     ret |-> RetText("ok", "Form submitted successfully! Your OpenShift lab request has been received.", <<>>)]

(***************************************************************************)
(* A thread inside a SessionManager method: the method, its argument, the  *)
(* line it is about to run, its locals, and the outcome of its last call.  *)
(***************************************************************************)
Threads == 1..NumThreads

\* The caller of get_form_data holds no mapping yet.
NoMapping == [sid |-> 0, shared |-> FALSE, val |-> EmptyDict]

\* No database session is open; n have been opened so far.  Of the last
\* session: pending holds the rows of its open transaction, added the rows
\* its body added, before the table when it was opened, log the calls made
\* on it, exc the exception on its way to the caller, outcome how the with
\* block of the caller ended.
NoDbSession(n) ==
    [pc |-> "idle", n |-> n, pending |-> <<>>, added |-> <<>>, before |-> <<>>,
     log |-> <<>>, exc |-> "", outcome |-> ""]

\* The conversations FormFillingAgent.process_message serves, one per user.
Conversations == 1..MaxConversations
\* The outcome of a call of method op: it returned r, or raised e.
NoResult == [op |-> "", exc |-> "", ret |-> RetNone]
Returned(op, r) == [op |-> op, exc |-> "", ret |-> r]
Raised(op, e) == [op |-> op, exc |-> e, ret |-> RetNone]
IdleThread(calls, result) ==
    [pc |-> "idle", op |-> "", sid |-> 0, calls |-> calls, result |-> result,
     it_used |-> 0, it_left |-> 0, it_pos |-> 0, expired_sessions |-> <<>>]

(***************************************************************************)
(* The calls of a single-threaded caller, each one step.                   *)
(***************************************************************************)
\* The state after the modules are loaded, before any call.
Loaded ==
    /\ now = 0
    /\ sessions = [k \in {} |-> SessionData(k, "", 0)]
    /\ nextId = 1
    /\ ret = RetNone
    /\ _form_data = InitialFormData
    /\ requests = <<>>
    /\ submitted = 0
    /\ expired_ever = {}
    /\ th = [t \in Threads |-> IdleThread(0, NoResult)]
    /\ detached = [k \in {} |-> SessionData(k, "", 0)]
    /\ written = [c \in Conversations |-> {}]
    /\ checks = <<>>
    /\ held = NoMapping
    /\ db = NoDbSession(0)

Init ==
    /\ call = NoCall
    /\ Loaded

Tick ==
    /\ \E d \in TickSteps : now + d <= MaxTime /\ now' = now + d
    /\ call' = Call("tick", 0, "", PyNone, -1)
    /\ ret' = RetNone
    /\ UNCHANGED <<sessions, nextId, toolVars, histVars, auxVars, threadVars>>
    /\ expired_ever' = expired_ever \cup {sid \in DOMAIN sessions : Expired(sessions, sid, now')}

CreateSession ==
    /\ nextId <= MaxSessions
    /\ \E u \in Users :
         LET r == create_session(sessions, u, nextId, now)
         IN  /\ sessions' = r.store
             /\ ret' = r.ret
    /\ call' = Call("create_session", nextId, "", PyNone, -1)
    /\ nextId' = nextId + 1
    /\ UNCHANGED <<now, toolVars, histVars, auxVars, expired_ever, threadVars>>

GetSession ==
    \E sid \in SessionIds :
        LET r == get_session(sessions, sid, now)
        IN  /\ sessions' = r.store
            /\ ret' = r.ret
            /\ call' = Call("get_session", sid, "", PyNone, Age(sessions, sid, now))
            /\ UNCHANGED <<now, nextId, toolVars, histVars, auxVars, expired_ever, threadVars>>

UpdateFormData ==
    \E sid \in SessionIds, f \in FieldInputs, v \in ValueInputs :
        LET r == update_form_data(sessions, sid, f, v, now)
        IN  /\ sessions' = r.store
            /\ ret' = r.ret
            /\ call' = Call("update_form_data", sid, f, v, Age(sessions, sid, now))
            /\ UNCHANGED <<now, nextId, toolVars, histVars, auxVars, expired_ever, threadVars>>

GetFormData ==
    \E sid \in SessionIds :
        LET r == get_form_data(sessions, sid, now)
        IN  /\ sessions' = r.store
            /\ ret' = r.ret
            /\ call' = Call("get_form_data", sid, "", PyNone, Age(sessions, sid, now))
            /\ UNCHANGED <<now, nextId, toolVars, histVars, auxVars, expired_ever, threadVars>>

DeleteSession ==
    \E sid \in SessionIds :
        LET r == delete_session(sessions, sid)
        IN  /\ sessions' = r.store
            /\ ret' = r.ret
            /\ call' = Call("delete_session", sid, "", PyNone, Age(sessions, sid, now))
            /\ UNCHANGED <<now, nextId, toolVars, histVars, auxVars, expired_ever, threadVars>>

CleanupExpiredSessions ==
    LET r == cleanup_expired_sessions(sessions, now)
    IN  /\ sessions' = r.store
        /\ ret' = r.ret
        /\ call' = Call("cleanup_expired_sessions", 0, "", PyNone, -1)
        /\ UNCHANGED <<now, nextId, toolVars, histVars, auxVars, expired_ever, threadVars>>

GetSessionSummary ==
    \E sid \in SessionIds :
        LET r == get_session_summary(sessions, sid, now)
        IN  /\ sessions' = r.store
            /\ ret' = r.ret
            /\ call' = Call("get_session_summary", sid, "", PyNone, Age(sessions, sid, now))
            /\ UNCHANGED <<now, nextId, toolVars, histVars, auxVars, expired_ever, threadVars>>

Next ==
    \/ Tick
    \/ CreateSession
    \/ GetSession
    \/ UpdateFormData
    \/ GetFormData
    \/ DeleteSession
    \/ CleanupExpiredSessions
    \/ GetSessionSummary

Spec == Init /\ [][Next]_vars


(***************************************************************************)
(* The calls of the agent on its tools, each one step.                     *)
(***************************************************************************)
acme == <<"A","c","m","e">>
ToolFieldInputs == {"company_name", "cluster_size", "timezone"}
ToolValueInputs == {PyStr(acme), PyStr(<<"x","l">>), PyStr(<<" ">>)}
MaxSubmits == 2

ToolGetFormData ==
    \E c \in Conversations :
        LET r == tool_get_form_data(_form_data)
        IN  /\ ret' = r.ret
            /\ call' = Call("tool.get_form_data", c, "", PyNone, -1)
            /\ UNCHANGED <<sessionVars, toolVars, histVars, auxVars, threadVars>>

ToolUpdateFormData ==
    \E c \in Conversations, f \in ToolFieldInputs, v \in ToolValueInputs :
        LET r == tool_update_form_data(_form_data, f, v)
        IN  /\ _form_data' = r.form
            /\ ret' = r.ret
            /\ call' = Call("tool.update_form_data", c, f, v, -1)
            /\ written' = IF r.ret.val.mark = "ok"
                           THEN [written EXCEPT ![c] = @ \cup {f}] ELSE written
            /\ UNCHANGED <<sessionVars, requests, submitted, threadVars, checks, auxVars>>

ToolValidateData ==
    \E c \in Conversations, f \in ToolFieldInputs, v \in ToolValueInputs :
        /\ ret' = validate_data(f, v)
        /\ call' = Call("tool.validate_data", c, f, v, -1)
        /\ UNCHANGED <<sessionVars, toolVars, histVars, auxVars, threadVars>>

ToolCheckFormCompleteness ==
    /\ ret' = check_form_completeness(_form_data)
    /\ \E c \in Conversations : call' = Call("tool.check_form_completeness", c, "", PyNone, -1)
    /\ UNCHANGED <<sessionVars, toolVars, histVars, auxVars, threadVars>>

ToolSubmitForm ==
    /\ submitted < MaxSubmits
    /\ LET r == submit_form(_form_data, requests)
       IN  /\ _form_data' = r.form
           /\ requests' = r.rows
           /\ ret' = r.ret
           /\ submitted' = IF r.ret.val.mark = "ok" THEN submitted + 1 ELSE submitted
    /\ \E c \in Conversations : call' = Call("tool.submit_form", c, "", PyNone, -1)
    /\ UNCHANGED <<sessionVars, threadVars, histVars, auxVars>>

ToolNext ==
    \/ ToolGetFormData
    \/ ToolUpdateFormData
    \/ ToolValidateData
    \/ ToolCheckFormCompleteness
    \/ ToolSubmitForm

ToolSpec == Init /\ [][ToolNext]_vars


(***************************************************************************)
(* A conversation filling the form of the first session: it asks for the   *)
(* fields one at a time in the order of the prompt, may skip an optional   *)
(* field, may correct virtualization and cluster_requirements once given,  *)
(* and may have validate_form_data look at the form at any time.           *)
(***************************************************************************)
MaxChecks == 3

\* The fields the prompt lists, in its order, without the optional contact
\* and notes fields.
FormFieldOrder ==
    <<"company_name", "primary_contact_name", "primary_contact_email",
      "sponsor_email", "project_name", "desired_start_date", "lease_duration",
      "timezone", "openshift_version", "virtualization", "cluster_requirements",
      "application_type", "request_type", "cluster_size", "cloud_provider",
      "description", "scope_of_work">>
\* The twenty fields of the form.
FormFieldNames ==
    {required_fields[i] : i \in 1..Len(required_fields)}
        \cup {"virtualization"} \cup OptionalStringFieldNames
RequiredFieldNames == {required_fields[i] : i \in 1..Len(required_fields)}
CorrectedFields == {"virtualization", "cluster_requirements"}

\* A value each required field accepts.
ValidValue(f) ==
    CASE f = "company_name" -> PyStr(<<"A","c","m","e">>)
      [] f = "primary_contact_name" -> PyStr(<<"A","n","n">>)
      [] f = "primary_contact_email" -> PyStr(<<"a","@","b",".","i","o">>)
      [] f = "sponsor_email" -> PyStr(<<"s","@","r","h",".","c","o","m">>)
      [] f = "project_name" -> PyStr(<<"L","a","b">>)
      [] f = "desired_start_date" -> PyStr(<<"2","0","2","6","-","0","1","-","1","5">>)
      [] f = "lease_duration" -> PyStr(<<"1","w">>)
      [] f = "timezone" -> PyStr(<<"U","T","C">>)
      [] f = "openshift_version" -> PyStr(<<"4",".","1","4">>)
      [] f = "application_type" -> PyStr(<<"w","o","r","k","l","o","a","d">>)
      [] f = "request_type" -> PyStr(<<"g","e","n","e","r","a","l">>)
      [] f = "cluster_size" -> PyStr(<<"x","l">>)
      [] f = "cloud_provider" -> PyStr(<<"a","w","s">>)
      [] f = "description" -> PyStr(<<"D","e","m","o">>)
      [] f = "scope_of_work" -> PyStr(<<"P","o","C">>)
\* The values the conversation gives for a field.
FormValues(f) ==
    CASE f = "virtualization" -> {PyTrue, PyFalse, PyInt(<<"1">>)}
      [] f = "cluster_requirements" -> {PyStr(<<>>), PyStr(<<"g","p","u">>), PyNone}
      [] f = "primary_contact_email" -> {ValidValue(f), PyStr(<<"b","a","d">>)}
      [] f = "cloud_provider" -> {ValidValue(f), PyStr(<<>>)}
      [] OTHER -> {ValidValue(f)}

FieldIndex(f) == CHOOSE i \in 1..Len(FormFieldOrder) : FormFieldOrder[i] = f
\* The field may be asked for now: it is being corrected, or it comes after
\* every field the form holds and no required field before it was left out.
MayAsk(form, f) ==
    IF DictHas(form, f) THEN f \in CorrectedFields
    ELSE /\ \A k \in DictKeys(form) : FieldIndex(k) < FieldIndex(f)
         /\ \A i \in 1..(FieldIndex(f) - 1) :
                FormFieldOrder[i] \in RequiredFieldNames => DictHas(form, FormFieldOrder[i])

RetValidation(r) == [kind |-> "validation", val |-> r]

\* session_manager.update_form_data(session_id, field, value)
FormWrite ==
    \E sid \in {1} \cap DOMAIN sessions, i \in 1..Len(FormFieldOrder) :
        LET f == FormFieldOrder[i]
            form == sessions[sid].form_data
        IN  /\ MayAsk(form, f)
            /\ \E v \in FormValues(f) :
                 LET r == update_form_data(sessions, sid, f, v, now)
                 IN  /\ sessions' = r.store
                     /\ ret' = r.ret
                     /\ call' = Call("update_form_data", sid, f, v, Age(sessions, sid, now))
            /\ UNCHANGED <<now, nextId, toolVars, histVars, auxVars, expired_ever, threadVars>>

\* Faulty variant: a form once found complete is kept as complete.
ValidateFormDataStored ==
    \E sid \in DOMAIN sessions :
        LET stored == sid = 1 /\ checks # <<>> /\ checks[Len(checks)]
            r == IF stored THEN [ok |-> TRUE, errors |-> <<>>]
                 ELSE validate_form_data(sessions[sid].form_data)
            changed == sid = 1 /\ (checks = <<>> \/ checks[Len(checks)] # r.ok)
        IN  /\ changed => Len(checks) < MaxChecks
            /\ ret' = RetValidation(r)
            /\ call' = Call("validate_form_data", sid, "", PyNone, -1)
            /\ checks' = IF changed THEN Append(checks, r.ok) ELSE checks
            /\ UNCHANGED <<sessionVars, toolVars, written, threadVars, auxVars>>

\* validate_form_data(form_data) on the form of a session.  checks records
\* the results on the first session's form, each time the result changes.
ValidateFormData ==
    \E sid \in DOMAIN sessions :
        LET r == validate_form_data(sessions[sid].form_data)
            changed == sid = 1 /\ (checks = <<>> \/ checks[Len(checks)] # r.ok)
        IN  /\ changed => Len(checks) < MaxChecks
            /\ ret' = RetValidation(r)
            /\ call' = Call("validate_form_data", sid, "", PyNone, -1)
            /\ checks' = IF changed THEN Append(checks, r.ok) ELSE checks
            /\ UNCHANGED <<sessionVars, toolVars, written, threadVars, auxVars>>

FormNext ==
    \/ CreateSession
    \/ FormWrite
    \/ ValidateFormData

FormSpec == Init /\ [][FormNext]_vars


(***************************************************************************)
(* Field writes of several sessions while the clock advances.  The field   *)
(* names are one of the form's and one that is none of the form's.         *)
(***************************************************************************)
gcp == <<"g","c","p">>
WriteFieldInputs == {"cloud_provider", "favourite_colour"}
WriteValues(f) ==
    IF f = "cloud_provider" THEN {PyStr(aws), PyStr(gcp)} ELSE {PyStr(<<"b","l","u","e">>)}

\* The clock advances by 13 hours: a session is written to when fresh, when
\* 13 hours old and when 26 hours old.
WriteTickSteps == {13}
WriteTick ==
    /\ \E d \in WriteTickSteps : now + d <= MaxTime /\ now' = now + d
    /\ call' = Call("tick", 0, "", PyNone, -1)
    /\ ret' = RetNone
    /\ UNCHANGED <<sessions, nextId, toolVars, histVars, auxVars, threadVars>>
    /\ expired_ever' = expired_ever \cup {sid \in DOMAIN sessions : Expired(sessions, sid, now')}

WriteField ==
    \E sid \in SessionIds, f \in WriteFieldInputs :
        \E v \in WriteValues(f) :
            LET r == update_form_data(sessions, sid, f, v, now)
            IN  /\ sessions' = r.store
                /\ ret' = r.ret
                /\ call' = Call("update_form_data", sid, f, v, Age(sessions, sid, now))
                /\ UNCHANGED <<now, nextId, toolVars, histVars, auxVars, expired_ever, threadVars>>

WriteNext ==
    \/ WriteTick
    \/ CreateSession
    \/ WriteField

WriteSpec == Init /\ [][WriteNext]_vars


(***************************************************************************)
(* Properties.                                                             *)
(***************************************************************************)
TouchingCalls == {"get_session", "get_form_data", "get_session_summary", "update_form_data"}

\* What a call returns for a session it does not find.
NotFoundResult(op) ==
    CASE op = "get_session" -> RetNone
      [] op = "update_form_data" -> RetBool(FALSE)
      [] op = "get_form_data" -> RetDict(EmptyDict)
      [] op = "get_session_summary" -> RetDict(EmptyDict)

\* C1: in every reachable state, every value held under a key of a session's
\* FormState passes validate_field for that field name.  The code stores what
\* it is given: update_form_data("cloud_provider", True) is kept.
C1_StoredValuesPassValidation ==
    \A sid \in DOMAIN sessions :
        \A i \in 1..Len(sessions[sid].form_data) :
            validate_field(sessions[sid].form_data[i].k, sessions[sid].form_data[i].v).ok

\* C2: a submit of a form that validate_form_data rejects returns a failure
\* and writes no row.  The code reports success whatever the form holds.
C2_SubmitRefusesInvalidForm ==
    [][(call'.op = "tool.submit_form" /\ ~validate_form_data(_form_data).ok)
         => (ret'.val.mark # "ok" /\ requests' = requests)]_vars

\* C3: get_session(id) returns not-found when the id is unknown or when
\* now - last_access > 24 hours, and in the expired case the session is no
\* longer in the store afterwards.
C3_GetSessionNotFound ==
    [][\A sid \in SessionIds :
         (call'.op = "get_session" /\ call'.sid = sid
            /\ (sid \notin DOMAIN sessions \/ now - sessions[sid].last_accessed > 24))
         => (ret' = RetNone /\ sid \notin DOMAIN sessions')]_vars

\* A session 25 hours old was asked for, reported not found and purged.
C3_Witness ==
    /\ call.op = "get_session"
    /\ call.age = 25
    /\ ret = RetNone
    /\ call.sid \notin DOMAIN sessions

\* C4: once a session has been untouched for longer than the expiry window,
\* it stays unreachable: it is never again in the store unexpired, and every
\* later get_session, update_form_data, get_form_data or get_session_summary
\* on it returns the not-found result.
C4_ExpiredIsTerminal ==
    [][\A sid \in expired_ever :
         /\ sid \notin DOMAIN sessions' \/ Expired(sessions', sid, now')
         /\ (call'.sid = sid /\ call'.op \in TouchingCalls)
              => ret' = NotFoundResult(call'.op)]_vars

\* A field write was refused for a session that had expired and had already
\* been purged by an earlier call.
C4_Witness ==
    /\ call.op = "update_form_data"
    /\ call.sid \in expired_ever
    /\ call.age = -1
    /\ ret = RetBool(FALSE)

\* C5: a read or write that finds its session live (known, and at most the
\* expiry window since its last access) succeeds and leaves the session's
\* last access equal to the time of the call; so a session touched at
\* intervals no longer than the window is never found expired.
C5_TouchRefreshesLastAccess ==
    [][\A sid \in DOMAIN sessions :
         (call'.sid = sid /\ call'.op \in TouchingCalls
            /\ now - sessions[sid].last_accessed <= session_expiry_hours)
         => /\ sid \in DOMAIN sessions'
            /\ sessions'[sid].last_accessed = now'
            /\ ret'.kind # "None"
            /\ call'.op = "update_form_data" => ret' = RetBool(TRUE)]_vars

\* A session created more than a window ago was touched again and is live.
C5_Witness ==
    /\ call.op \in TouchingCalls
    /\ call.sid \in DOMAIN sessions
    /\ call.age = 13
    /\ sessions[call.sid].last_accessed = now
    /\ now - sessions[call.sid].created_at > session_expiry_hours

\* C6: the sweep removes exactly the sessions with now - last_access > 24,
\* returns how many it removed, leaves every other session as it was, and
\* leaves no expired session in the store.
C6_SweepRemovesExactlyExpired ==
    [][call'.op = "cleanup_expired_sessions" =>
         LET gone == {sid \in DOMAIN sessions : now - sessions[sid].last_accessed > 24}
         IN  /\ DOMAIN sessions' = DOMAIN sessions \ gone
             /\ ret' = RetInt(Cardinality(gone))
             /\ \A sid \in DOMAIN sessions' : sessions'[sid] = sessions[sid]
             /\ \A sid \in DOMAIN sessions' : now' - sessions'[sid].last_accessed <= 24]_vars

\* A sweep removed one session and kept another, which holds a field.
C6_Witness ==
    /\ call.op = "cleanup_expired_sessions"
    /\ ret = RetInt(1)
    /\ \E sid \in DOMAIN sessions : sessions[sid].form_data # EmptyDict

\* C9: each successful submit adds exactly one row to the requests table,
\* holding the submitted fields, a generated id and request_state "pending".
\* The code's submit_form writes no row.
C9_SubmitCreatesOneRequest ==
    [][(call'.op = "tool.submit_form" /\ ret'.val.mark = "ok")
         => /\ Len(requests') = Len(requests) + 1
            /\ requests'[Len(requests')].id >= 1
            /\ requests'[Len(requests')].request_state = "pending"
            /\ requests'[Len(requests')].fields = _form_data]_vars

\* C10: once submit_form has reported success, no later call changes the
\* form and no later submit succeeds.  The code keeps the form open.
C10_SubmittedIsTerminal ==
    [][submitted > 0 => (_form_data' = _form_data /\ submitted' = submitted)]_vars

\* The form validate_form_data was given in the step just taken.
CheckedForm == sessions'[call'.sid].form_data
MissingText == "Required field is missing"
ConditionalText == "cluster_requirements is required when virtualization is True"
\* virtualization is exactly True and cluster_requirements is absent or empty.
RuleBroken(form) ==
    /\ DictHas(form, "virtualization")
    /\ DictGet(form, "virtualization") = PyTrue
    /\ \/ ~DictHas(form, "cluster_requirements")
       \/ DictGet(form, "cluster_requirements") \in {PyStr(<<>>), PyNone}
HasError(r, text) == \E j \in 1..Len(r.errors) : r.errors[j].msg = text
Without(form, key) == SelectSeq(form, LAMBDA item : item.k # key)

\* C11: validate_form_data returns ok = false with the cluster_requirements
\* error exactly when virtualization is exactly True and cluster_requirements
\* is absent or empty (the empty string or None); and when virtualization is
\* False its result is the same for the form without cluster_requirements and
\* with cluster_requirements set to any string.
C11_ConditionalRule ==
    [][call'.op = "validate_form_data" =>
         LET form == CheckedForm
             r == ret'.val
         IN  /\ (~r.ok /\ HasError(r, ConditionalText)) <=> RuleBroken(form)
             /\ (DictHas(form, "virtualization") /\ DictGet(form, "virtualization") = PyFalse)
                  => /\ validate_form_data(Without(form, "cluster_requirements")) = r
                     /\ \A v \in {PyStr(<<>>), PyStr(<<"g","p","u">>), PyStr(<<" ">>)} :
                            validate_form_data(DictSet(form, "cluster_requirements", v)) = r]_vars

\* A form whose only fault is the broken rule was refused with that error.
C11_Witness ==
    /\ call.op = "validate_form_data"
    /\ ~ret.val.ok
    /\ Len(ret.val.errors) = 1
    /\ ret.val.errors[1].msg = ConditionalText
    /\ DictGet(sessions[call.sid].form_data, "virtualization") = PyTrue

\* C12: validate_form_data returns ok = true exactly when its error list is
\* empty, which is exactly when every required field is present and truthy,
\* every field present passes validate_field and the
\* virtualization/cluster_requirements rule holds; the errors come in the
\* order: one per missing required field, one per field failing
\* validate_field, then the rule's error.
C12_ValidIffNoErrors ==
    [][call'.op = "validate_form_data" =>
         LET form == CheckedForm
             r == ret'.val
             n == Len(r.errors)
             missing == {f \in {"company_name", "primary_contact_name", "primary_contact_email",
                                "sponsor_email", "project_name", "desired_start_date",
                                "lease_duration", "timezone", "openshift_version",
                                "application_type", "request_type", "cluster_size",
                                "cloud_provider", "description", "scope_of_work"} :
                            ~DictHas(form, f) \/ ~Truthy(DictGet(form, f))}
             failing == {i \in 1..Len(form) : ~validate_field(form[i].k, form[i].v).ok}
             a == Cardinality(missing)
             b == a + Cardinality(failing)
         IN  /\ r.ok <=> (n = 0)
             /\ r.ok <=> (missing = {} /\ failing = {} /\ ~RuleBroken(form))
             /\ n = b + (IF RuleBroken(form) THEN 1 ELSE 0)
             /\ \A j \in 1..a : r.errors[j].msg = MissingText /\ r.errors[j].field \in missing
             /\ \A j \in (a + 1)..b :
                    \E i \in failing : r.errors[j] = validate_field(form[i].k, form[i].v).error
             /\ \A j \in (b + 1)..n : r.errors[j].msg = ConditionalText]_vars

\* A form was refused with errors of all three kinds.
C12_Witness ==
    /\ call.op = "validate_form_data"
    /\ HasError(ret.val, MissingText)
    /\ HasError(ret.val, "Invalid email format for")
    /\ HasError(ret.val, ConditionalText)

\* The required fields of the form, by name.
TheRequiredFields ==
    {"company_name", "primary_contact_name", "primary_contact_email", "sponsor_email",
     "project_name", "desired_start_date", "lease_duration", "timezone",
     "openshift_version", "application_type", "request_type", "cluster_size",
     "cloud_provider", "description", "scope_of_work"}
\* The form holds required fields only, each with a value its predicate accepts.
RequiredFieldsOnly(form) ==
    \A i \in 1..Len(form) :
        /\ form[i].k \in TheRequiredFields
        /\ Truthy(form[i].v)
        /\ validate_field(form[i].k, form[i].v).ok
ReportedMissing(r) ==
    {r.errors[j].field : j \in {x \in 1..Len(r.errors) : r.errors[x].msg = MissingText}}

\* C13 as stated: in a new session, once company_name is written the
\* completeness check reports every other required field missing, and once
\* 13 more required fields are written with valid values, 14 in all, it
\* reports ok = true.  validate_form_data requires 15 fields: a form of 14 is
\* refused for the one still missing.
C13_FourteenFieldsComplete ==
    [][call'.op = "validate_form_data" =>
         LET form == CheckedForm
             r == ret'.val
         IN  /\ (DictKeys(form) = {"company_name"} /\ RequiredFieldsOnly(form))
                  => (~r.ok /\ ReportedMissing(r) = TheRequiredFields \ {"company_name"})
             /\ (RequiredFieldsOnly(form) /\ Cardinality(DictKeys(form)) = 14) => r.ok]_vars

\* C13 amended: in a new session, once company_name is written
\* validate_form_data on the session's form reports each of the other 14
\* required fields missing; while a required field is still unwritten it
\* returns ok = false; and once the remaining 14 required fields are written
\* with valid values, 15 in all, it returns ok = true.
C13_FifteenFieldsComplete ==
    [][call'.op = "validate_form_data" =>
         LET form == CheckedForm
             r == ret'.val
         IN  /\ (DictKeys(form) = {"company_name"} /\ RequiredFieldsOnly(form))
                  => (~r.ok /\ ReportedMissing(r) = TheRequiredFields \ {"company_name"}
                        /\ Cardinality(ReportedMissing(r)) = 14)
             /\ (RequiredFieldsOnly(form) /\ Cardinality(DictKeys(form)) < 15)
                  => (~r.ok /\ ReportedMissing(r) = TheRequiredFields \ DictKeys(form))
             /\ (RequiredFieldsOnly(form) /\ Cardinality(DictKeys(form)) = 15) => r.ok]_vars

\* The first session's form, refused while it was being filled, holds the 15
\* required fields and nothing else, and has just been accepted.
C13_Witness ==
    /\ call.op = "validate_form_data"
    /\ call.sid = 1
    /\ DictKeys(sessions[1].form_data) = TheRequiredFields
    /\ ret.val.ok
    /\ checks = <<FALSE, TRUE>>

\* Every required field is present and every field present has a value its
\* predicate accepts.
FieldsComplete(form) ==
    /\ TheRequiredFields \subseteq DictKeys(form)
    /\ \A i \in 1..Len(form) :
          /\ validate_field(form[i].k, form[i].v).ok
          /\ form[i].k \in TheRequiredFields => Truthy(form[i].v)

\* C15: the result of a completeness check is a function of the form at the
\* moment of the check and of nothing else: whatever the earlier checks
\* returned, a form with virtualization True and cluster_requirements empty is
\* reported incomplete, a form with every field valid and the rule satisfied
\* is reported complete, and two checks with no write between them agree.
C15_CompletenessIsDerived ==
    [][call'.op = "validate_form_data" =>
         LET form == CheckedForm
             r == ret'.val
         IN  /\ RuleBroken(form) => ~r.ok
             /\ (FieldsComplete(form) /\ ~RuleBroken(form)) => r.ok
             /\ (call.op = "validate_form_data" /\ call.sid = call'.sid) => ret' = ret
             /\ call'.sid = 1 => checks'[Len(checks')] = r.ok]_vars

\* The first session's form was found complete, then incomplete after
\* virtualization was set to True with cluster_requirements empty, and is
\* found complete again now that cluster_requirements is given.
C15_Witness ==
    /\ call.op = "validate_form_data"
    /\ call.sid = 1
    /\ checks = <<TRUE, FALSE, TRUE>>
    /\ ret.val.ok
    /\ DictGet(sessions[1].form_data, "virtualization") = PyTrue
    /\ Truthy(DictGet(sessions[1].form_data, "cluster_requirements"))

\* C14: check_form_completeness reports the form complete exactly when
\* validate_form_data accepts the same form, and the fields it reports
\* missing are the fields validate_form_data reports missing.  The tool of
\* the code tests its own seven fields for emptiness and never calls
\* validate_form_data.
C14_CompletenessIsValidateForm ==
    [][call'.op = "tool.check_form_completeness" =>
         LET v == validate_form_data(_form_data)
             reported == IF ret'.val.mark = "fail"
                         THEN {ret'.val.args[j] : j \in 1..Len(ret'.val.args)} ELSE {}
             missing == {v.errors[j].field : j \in
                            {x \in 1..Len(v.errors) : v.errors[x].msg = "Required field is missing"}}
         IN  /\ (ret'.val.mark = "ok") <=> v.ok
             /\ reported = missing]_vars

\* C16: what the tools return to a conversation holds only what that
\* conversation wrote: every field get_form_data shows filled was written by
\* the conversation asking, and check_form_completeness counts as filled no
\* field the asking conversation has not written.  The tools of the code work
\* on one module-level _form_data for all conversations, and never on the
\* SessionManager.
C16_FormStateNotShared ==
    [][/\ call'.op = "tool.get_form_data" =>
            \A i \in 1..Len(ret'.val) :
                ret'.val[i].v # InitialFormData[i].v => ret'.val[i].k \in written[call'.sid]
       /\ (call'.op = "tool.check_form_completeness" /\ ret'.val.mark = "fail") =>
            \A i \in 1..Len(tool_required_fields) :
                tool_required_fields[i] \notin written[call'.sid]
                    => \E j \in 1..Len(ret'.val.args) :
                           ret'.val.args[j] = tool_required_fields[i]]_vars

\* C17: a successful update_form_data(s, f, v) sets field f of session s to v,
\* replacing what f held and keeping one entry for f, and sets s's last
\* access to now; every other field and attribute of s is unchanged, and so
\* are the membership of the store and every other session.
C17_UpdateChangesOneField ==
    [][(call'.op = "update_form_data" /\ ret' = RetBool(TRUE)) =>
         LET sid == call'.sid
             f == call'.field
         IN  /\ sid \in DOMAIN sessions
             /\ DOMAIN sessions' = DOMAIN sessions
             /\ \A k \in DOMAIN sessions \ {sid} : sessions'[k] = sessions[k]
             /\ sessions'[sid].session_id = sessions[sid].session_id
             /\ sessions'[sid].user_email = sessions[sid].user_email
             /\ sessions'[sid].created_at = sessions[sid].created_at
             /\ sessions'[sid].is_active = sessions[sid].is_active
             /\ sessions'[sid].last_accessed = now'
             /\ DictKeys(sessions'[sid].form_data) = DictKeys(sessions[sid].form_data) \cup {f}
             /\ DictGet(sessions'[sid].form_data, f) = call'.value
             /\ Len(sessions'[sid].form_data) = Cardinality(DictKeys(sessions'[sid].form_data))
             /\ \A g \in DictKeys(sessions[sid].form_data) \ {f} :
                    DictGet(sessions'[sid].form_data, g) = DictGet(sessions[sid].form_data, g)]_vars

\* cloud_provider, written before favourite_colour, has just been written
\* again in a session last touched 13 hours ago, while another session holds
\* a field and an older last access.
C17_Witness ==
    /\ call.op = "update_form_data"
    /\ ret = RetBool(TRUE)
    /\ call.field = "cloud_provider"
    /\ call.age = 13
    /\ call.sid \in DOMAIN sessions
    /\ Len(sessions[call.sid].form_data) = 2
    /\ sessions[call.sid].form_data[1].k = "cloud_provider"
    /\ \E k \in DOMAIN sessions \ {call.sid} :
          sessions[k].form_data # EmptyDict /\ sessions[k].last_accessed < now

\* C18: update_form_data on a session id that is unknown, or whose last
\* access is more than 24 hours ago, returns False and writes no field: every
\* other session is left as it was, and the store changes only by the
\* removal of the expired session.
C18_FailedUpdateWritesNothing ==
    [][(call'.op = "update_form_data"
          /\ (call'.sid \notin DOMAIN sessions
                \/ now - sessions[call'.sid].last_accessed > 24)) =>
         /\ ret' = RetBool(FALSE)
         /\ DOMAIN sessions' = DOMAIN sessions \ {call'.sid}
         /\ \A k \in DOMAIN sessions' : sessions'[k] = sessions[k]]_vars

\* A write to a session 26 hours old was refused and the session purged,
\* while a session holding a field stays.
C18_Witness ==
    /\ call.op = "update_form_data"
    /\ call.age = 26
    /\ ret = RetBool(FALSE)
    /\ call.sid \notin DOMAIN sessions
    /\ \E k \in DOMAIN sessions : sessions[k].form_data # EmptyDict

\* C19: in every reachable state the keys of every session's form are among
\* the twenty fields of the form.  The code's update_form_data stores any
\* field name it is given.
C19_FormKeysInSchema ==
    \A sid \in DOMAIN sessions : DictKeys(sessions[sid].form_data) \subseteq FormFieldNames

\* C20: create_session returns an identifier that no session in the store
\* has and that no earlier create_session returned, adds under it a session
\* with an empty form and creation and last-access times equal to now, and
\* leaves every session already in the store as it was.
C20_CreateSessionIsFresh ==
    [][call'.op = "create_session" =>
         LET id == ret'.val
         IN  /\ ret'.kind = "session_id"
             /\ id \notin DOMAIN sessions
             /\ id \notin 1..(nextId - 1)
             /\ DOMAIN sessions' = DOMAIN sessions \cup {id}
             /\ sessions'[id].session_id = id
             /\ sessions'[id].form_data = EmptyDict
             /\ sessions'[id].created_at = now'
             /\ sessions'[id].last_accessed = now'
             /\ \A k \in DOMAIN sessions : sessions'[k] = sessions[k]]_vars

\* A second session was created 12 hours after the first, which holds a field.
C20_Witness ==
    /\ call.op = "create_session"
    /\ ret = RetId(2)
    /\ 1 \in DOMAIN sessions
    /\ sessions[1].form_data # EmptyDict
    /\ sessions[1].created_at = 0
    /\ sessions[2].created_at = 12
    /\ sessions[2].form_data = EmptyDict

\* C21: update_form_data is idempotent on the FormState.  When a successful
\* update_form_data(sid, f, v) is followed at once by the same call, the
\* second call succeeds and leaves the FormState the first call produced;
\* and after any successful call, the same call made again on the store it
\* left would produce an equal store.
C21_UpdateIsIdempotent ==
    [][(call'.op = "update_form_data" /\ ret' = RetBool(TRUE)) =>
         LET sid == call'.sid
             again == update_form_data(sessions', sid, call'.field, call'.value, now')
         IN  /\ again.ret = RetBool(TRUE)
             /\ again.store = sessions'
             /\ (call.op = "update_form_data" /\ ret = RetBool(TRUE)
                    /\ call.sid = sid /\ call.field = call'.field
                    /\ call.value = call'.value) =>
                   /\ sid \in DOMAIN sessions
                   /\ sessions'[sid].form_data = sessions[sid].form_data]_vars

\* favourite_colour = 'blue' has just been written to a session created 13
\* hours ago and last touched now.  Only update_form_data touches a session
\* here and the form holds no other field, so the call before it on this
\* session was the same call: the second of two identical calls has acted.
C21_Witness ==
    /\ call.op = "update_form_data"
    /\ ret = RetBool(TRUE)
    /\ call.field = "favourite_colour"
    /\ call.age = 0
    /\ call.sid \in DOMAIN sessions
    /\ sessions[call.sid].created_at < now
    /\ sessions[call.sid].form_data = <<[k |-> "favourite_colour", v |-> call.value]>>

(***************************************************************************)
(* validate_field and the validate_data tool applied to field names and    *)
(* values of every kind.                                                   *)
(***************************************************************************)
digitalocean == <<"d","i","g","i","t","a","l","o","c","e","a","n">>
\* The names validate_field dispatches on, names it does not know, the empty
\* name, and objects that are no str.
KnownFieldNames ==
    EmailFieldNames \cup DateFieldNames \cup RequiredStringFieldNames
        \cup OptionalStringFieldNames
        \cup {"openshift_version", "timezone", "lease_duration", "application_type",
              "request_type", "cluster_size", "cloud_provider", "virtualization"}
UnknownFieldNames ==
    {"favourite_colour", "use_case", "contact_name", "additional_requirements",
     "email", "emails", ""}
StrFieldNameInputs == {FieldName(a) : a \in KnownFieldNames \cup UnknownFieldNames}
FieldNameInputs == StrFieldNameInputs \cup {PyNone, PyInt(<<"7">>), PyList(<<>>)}
FieldValueInputs ==
    {PyNone, PyTrue, PyFalse, PyInt(<<"0">>), PyInt(<<"1">>), PyInt(<<"7">>),
     PyList(<<>>), PyList(<<PyStr(aws)>>),
     PyStr(<<>>), PyStr(<<" ">>), PyStr(<<"t","r","u","e">>), PyStr(<<"f","a","l","s","e">>),
     PyStr(<<"T","r","u","e">>), PyStr(<<"0">>), PyStr(<<"1">>),
     PyStr(<<"A","W","S">>), PyStr(<<"A","w","s">>), PyStr(<<"a","w","s"," ">>),
     PyStr(<<" ","a","w","s">>), PyStr(<<"a","w">>), PyStr(digitalocean),
     PyStr(<<"1","D">>), PyStr(<<"3","d">>), PyStr(<<"S","m","a","l","l">>),
     PyStr(<<"X","L">>), PyStr(<<"A","I">>), PyStr(<<"W","o","r","k","l","o","a","d">>),
     PyStr(<<"a","@","b",".","c","o">>), PyStr(<<"b","a","d">>),
     PyStr(<<"4",".","1","4">>), PyStr(<<"U","T","C">>),
     PyStr(<<"2","0","2","6","-","0","1","-","1","5">>), PyStr(acme)}
        \cup {PyStr(x) : x \in ALLOWED_LEASE_DURATIONS \cup ALLOWED_APPLICATION_TYPES
                                \cup ALLOWED_REQUEST_TYPES \cup ALLOWED_CLUSTER_SIZES
                                \cup ALLOWED_CLOUD_PROVIDERS}

\* The arguments of one call, not yet made.
FieldInit ==
    /\ \E f \in FieldNameInputs, v \in FieldValueInputs :
          call = Call("arguments", 0, f, v, -1)
    /\ Loaded

\* validate_field(field_name, value)
ValidateField ==
    /\ call.op = "arguments"
    /\ ret' = RetValidation(validate_field_call(call.field, call.value))
    /\ call' = [call EXCEPT !.op = "validate_field"]
    /\ UNCHANGED <<sessionVars, toolVars, histVars, auxVars, threadVars>>

\* The validate_data tool, called with a str as field.
ValidateData ==
    /\ call.op = "arguments"
    /\ call.field \in StrFieldNameInputs
    /\ ret' = validate_data(call.field.name, call.value)
    /\ call' = [call EXCEPT !.op = "tool.validate_data"]
    /\ UNCHANGED <<sessionVars, toolVars, histVars, auxVars, threadVars>>

FieldNext ==
    \/ ValidateField
    \/ ValidateData

FieldSpec == FieldInit /\ [][FieldNext]_vars

\* The result of the call is the pair (True, None).
Accepted == ret = RetValidation(Valid)
FieldCalled(names) ==
    /\ call.op = "validate_field"
    /\ call.field.type = "str"
    /\ call.field.name \in names

\* C22: for secondary_contact_name, secondary_contact_email, notes and
\* cluster_requirements validate_field applies the optional-string
\* predicate: None is valid, every str is valid, and only a value that is
\* neither is rejected.
C22_OptionalStringPredicate ==
    FieldCalled({"secondary_contact_name", "secondary_contact_email", "notes",
                 "cluster_requirements"}) =>
        (Accepted <=> call.value.type \in {"NoneType", "str"})

\* C23: validate_field never raises.  For every object passed as field name
\* (a str, None, a number, a list) and every value (None, booleans, numbers,
\* lists, strings) the result is a pair (ok, message): ok True with no
\* message, or ok False with a message; an exception inside the dispatch
\* gives ok False and a message that says so.
C23_ValidateFieldNeverRaises ==
    call.op = "validate_field" =>
        /\ DOMAIN ret.val = {"ok", "error"}
        /\ ret.val.ok \in BOOLEAN
        /\ ret.val.ok => ret.val.error = NoError
        /\ ~ret.val.ok => (ret.val.error # NoError /\ ret.val.error.msg # "")
        /\ call.field.type # "str" =>
              /\ ~ret.val.ok
              /\ ret.val.error.msg = "Validation error: object has no attribute 'endswith'"

\* validate_field(None, 'aws') has returned False and the text of the
\* AttributeError.
C23_Witness ==
    /\ call.op = "validate_field"
    /\ call.field = PyNone
    /\ call.value = PyStr(aws)
    /\ ~ret.val.ok
    /\ ret.val.error.field = "NoneType"

\* C24: a field name that does not end in _email and is none of the names
\* validate_field dispatches on is accepted with every value: the result is
\* (True, None).
C24_UnknownFieldAccepted ==
    FieldCalled({"favourite_colour", "use_case", "contact_name",
                 "additional_requirements", "email", "emails", ""}) => Accepted

\* validate_field('use_case', 7) has returned (True, None).
C24_Witness ==
    /\ FieldCalled({"use_case"})
    /\ call.value = PyInt(<<"7">>)
    /\ Accepted

\* The allowed values of each enumerated field and the start of its message.
Enumerated ==
    [lease_duration |-> [allowed |-> ALLOWED_LEASE_DURATIONS,
                         msg |-> "Lease duration must be one of:"],
     application_type |-> [allowed |-> ALLOWED_APPLICATION_TYPES,
                           msg |-> "Application type must be one of:"],
     request_type |-> [allowed |-> ALLOWED_REQUEST_TYPES,
                       msg |-> "Request type must be one of:"],
     cluster_size |-> [allowed |-> ALLOWED_CLUSTER_SIZES,
                       msg |-> "Cluster size must be one of:"],
     cloud_provider |-> [allowed |-> {aws, gcp, <<"a","z","u","r","e">>, <<"i","b","m">>},
                         msg |-> "Cloud provider must be one of:"]]

\* C25: for lease_duration, application_type, request_type, cluster_size
\* and cloud_provider validate_field succeeds exactly when the value is a
\* str equal, character for character, to a member of the field's allowed
\* set; when it fails the message names that allowed set.
C25_EnumeratedFields ==
    FieldCalled(DOMAIN Enumerated) =>
        LET en == Enumerated[call.field.name]
            member == call.value.type = "str" /\ call.value.val \in en.allowed
        IN  /\ Accepted <=> member
            /\ ~member => ret = RetValidation(Invalid(Message(en.msg, "", en.allowed)))

\* validate_field('cloud_provider', 'digitalocean') has failed with a
\* message listing aws, gcp, azure and ibm.
C25_Witness ==
    /\ FieldCalled({"cloud_provider"})
    /\ call.value = PyStr(digitalocean)
    /\ ~ret.val.ok
    /\ ret.val.error.allowed = {aws, gcp, <<"a","z","u","r","e">>, <<"i","b","m">>}

\* C26: virtualization is admitted only as a native boolean.  Both
\* validate_field('virtualization', v) and the validate_data tool succeed
\* exactly when v is True or False; the strings 'true' and 'false' and the
\* numbers 0 and 1 are rejected.
C26_NativeBooleanOnly ==
    (call.op \in {"validate_field", "tool.validate_data"}
        /\ call.field.type = "str" /\ call.field.name = "virtualization") =>
        LET succeeded == IF call.op = "validate_field" THEN ret.val.ok
                         ELSE ret.val.mark = "ok"
        IN  /\ succeeded <=> call.value.type = "bool"
            /\ (call.op = "validate_field" /\ ~succeeded) =>
                  ret.val.error.msg = "Virtualization must be a boolean value"

\* The validate_data tool has rejected the string 'true' for virtualization.
C26_Witness ==
    /\ call.op = "tool.validate_data"
    /\ call.field = FieldName("virtualization")
    /\ call.value = PyStr(<<"t","r","u","e">>)
    /\ ret.val.mark = "fail"

(***************************************************************************)
(* get_form_data and the mapping it returns.  A dict is an object: held    *)
(* is the mapping a caller keeps, and held.shared says whether it is the   *)
(* very dict the session stores, in which case a write through either is   *)
(* seen through both.                                                      *)
(***************************************************************************)
\* Faulty variant of dict.copy(): the dict itself is handed out.
dict_itself(d) == [shared |-> TRUE, val |-> d]
\* dict.copy(): a new dict with the same items.
dict_copy(d) == [shared |-> FALSE, val |-> d]

blue == <<"b","l","u","e">>
SnapshotKeys == {"cloud_provider", "favourite_colour"}

\* mapping = session_manager.get_form_data(session_id)
SnapGetFormData ==
    \E sid \in SessionIds :
        LET r == get_form_data(sessions, sid, now)
            obj == IF sid \in DOMAIN r.store
                   THEN dict_copy(r.store[sid].form_data)
                   ELSE [shared |-> FALSE, val |-> EmptyDict]
        IN  /\ sessions' = r.store
            /\ ret' = RetDict(obj.val)
            /\ held' = [sid |-> sid, shared |-> obj.shared, val |-> obj.val]
            /\ call' = Call("get_form_data", sid, "", PyNone, Age(sessions, sid, now))
            /\ UNCHANGED <<now, nextId, toolVars, histVars, db, expired_ever, threadVars>>

\* session_manager.update_form_data(session_id, 'cloud_provider', value)
SnapUpdateFormData ==
    \E sid \in SessionIds, v \in WriteValues("cloud_provider") :
        LET r == update_form_data(sessions, sid, "cloud_provider", v, now)
        IN  /\ sessions' = r.store
            /\ ret' = r.ret
            /\ held' = IF held.shared /\ held.sid = sid /\ r.ret = RetBool(TRUE)
                       THEN [held EXCEPT !.val = r.store[sid].form_data]
                       ELSE held
            /\ call' = Call("update_form_data", sid, "cloud_provider", v,
                            Age(sessions, sid, now))
            /\ UNCHANGED <<now, nextId, toolVars, histVars, db, expired_ever, threadVars>>

\* mapping[key] = 'blue': the caller adds or replaces a key of the mapping
\* it was given.
MappingSetItem ==
    \E key \in SnapshotKeys :
        /\ held.sid # 0
        /\ held' = [held EXCEPT !.val = DictSet(@, key, PyStr(blue))]
        /\ sessions' = IF held.shared /\ held.sid \in DOMAIN sessions
                       THEN [sessions EXCEPT ![held.sid].form_data = held'.val]
                       ELSE sessions
        /\ call' = Call("mapping.setitem", held.sid, key, PyStr(blue), -1)
        /\ ret' = RetNone
        /\ UNCHANGED <<now, nextId, toolVars, histVars, db, expired_ever, threadVars>>

SnapNext ==
    \/ WriteTick
    \/ CreateSession
    \/ SnapGetFormData
    \/ SnapUpdateFormData
    \/ MappingSetItem

SnapSpec == Init /\ [][SnapNext]_vars

\* C28: the mapping get_form_data returns is a snapshot.  A later
\* update_form_data leaves the mapping the caller holds as it was; adding or
\* replacing a key in that mapping leaves every session's stored form as it
\* was; and the mapping returned is the form of a session that is in the
\* store and within its 24 hours, and empty for any other id.
C28_FormDataIsSnapshot ==
    [][/\ (call'.op = "update_form_data") => held' = held
       /\ (call'.op = "mapping.setitem") => sessions' = sessions
       /\ (call'.op = "get_form_data") =>
             LET sid == call'.sid
                 live == sid \in DOMAIN sessions /\ now - sessions[sid].last_accessed <= 24
             IN  /\ ret' = RetDict(IF live THEN sessions[sid].form_data ELSE EmptyDict)
                 /\ held'.val = ret'.val
                 /\ live => sessions'[sid].form_data = sessions[sid].form_data]_vars

\* The caller holds a mapping taken when cloud_provider was 'aws' and has
\* added favourite_colour to it; the session has since been updated to
\* 'gcp'.  The mapping still says 'aws', the session has no favourite_colour.
C28_Witness ==
    /\ call.op = "update_form_data"
    /\ ret = RetBool(TRUE)
    /\ call.sid = held.sid
    /\ held.val = <<[k |-> "cloud_provider", v |-> PyStr(aws)],
                    [k |-> "favourite_colour", v |-> PyStr(blue)]>>
    /\ sessions[held.sid].form_data = <<[k |-> "cloud_provider", v |-> PyStr(gcp)]>>

(***************************************************************************)
(* get_db_session: the context manager around a database session.  The    *)
(* body of the caller's with block adds rows and completes or raises; an   *)
(* exception is an Exception or a BaseException that is none (GeneratorExit *)
(* when get_db is closed, KeyboardInterrupt).  commit writes the pending   *)
(* rows or raises and writes none; rollback and close succeed, and both    *)
(* discard the open transaction.                                           *)
(***************************************************************************)
MaxDbSessions == 3
MaxRows == 2
ExceptionKinds == {"Exception", "BaseException"}

\* session = SessionLocal(); yield session
DbOpen ==
    /\ db.pc = "idle"
    /\ db.n < MaxDbSessions
    /\ db' = [NoDbSession(db.n + 1) EXCEPT !.pc = "body", !.before = requests]
    /\ UNCHANGED <<call, ret, sessionVars, toolVars, histVars, held, threadVars>>

\* The body adds a row to the session.
DbBodyAdds ==
    /\ db.pc = "body"
    /\ Len(db.added) < MaxRows
    /\ LET row == [session |-> db.n, row |-> Len(db.added) + 1]
       IN  db' = [db EXCEPT !.pending = Append(@, row), !.added = Append(@, row)]
    /\ UNCHANGED <<call, ret, sessionVars, toolVars, histVars, held, threadVars>>

\* The body completes: control returns after the yield.
DbBodyCompletes ==
    /\ db.pc = "body"
    /\ db' = [db EXCEPT !.pc = "commit"]
    /\ UNCHANGED <<call, ret, sessionVars, toolVars, histVars, held, threadVars>>

\* Faulty variant: no exception reaches the handler.
DbBodyRaisesUncaught ==
    /\ db.pc = "body"
    /\ \E e \in ExceptionKinds : db' = [db EXCEPT !.exc = e, !.pc = "close"]
    /\ UNCHANGED <<call, ret, sessionVars, toolVars, histVars, held, threadVars>>

\* The body raises: the exception is thrown in at the yield.  `except
\* Exception` takes an Exception; any other BaseException goes to finally.
DbBodyRaises ==
    /\ db.pc = "body"
    /\ \E e \in ExceptionKinds :
          db' = [db EXCEPT !.exc = e,
                           !.pc = IF e = "Exception" THEN "rollback" ELSE "close"]
    /\ UNCHANGED <<call, ret, sessionVars, toolVars, histVars, held, threadVars>>

\* session.commit()
DbCommit ==
    /\ db.pc = "commit"
    /\ \/ /\ requests' = requests \o db.pending
          /\ db' = [db EXCEPT !.pending = <<>>, !.log = Append(@, "commit"), !.pc = "close"]
       \/ /\ requests' = requests
          /\ db' = [db EXCEPT !.log = Append(@, "commit failed"),
                              !.exc = "Exception", !.pc = "rollback"]
    /\ UNCHANGED <<call, ret, sessionVars, _form_data, submitted, histVars, held, threadVars>>

\* session.rollback(); logger.error(...); raise
DbRollback ==
    /\ db.pc = "rollback"
    /\ db' = [db EXCEPT !.pending = <<>>, !.log = Append(@, "rollback"), !.pc = "close"]
    /\ UNCHANGED <<call, ret, sessionVars, toolVars, histVars, held, threadVars>>

\* finally: session.close(); the with block of the caller ends.
DbClose ==
    /\ db.pc = "close"
    /\ db' = [db EXCEPT !.pending = <<>>, !.log = Append(@, "close"), !.pc = "idle",
                        !.outcome = IF db.exc = "" THEN "returned" ELSE "raised"]
    /\ UNCHANGED <<call, ret, sessionVars, toolVars, histVars, held, threadVars>>

DbNext ==
    \/ DbOpen
    \/ DbBodyAdds
    \/ DbBodyCompletes
    \/ DbBodyRaises
    \/ DbCommit
    \/ DbRollback
    \/ DbClose

DbSpec == Init /\ [][DbNext]_vars

\* The last database session has ended.
DbEnded == db.pc = "idle" /\ db.n > 0
\* The body completed and its rows were committed.
DbEndedCommitted ==
    /\ db.outcome = "returned"
    /\ db.exc = ""
    /\ db.log = <<"commit", "close">>
    /\ requests = db.before \o db.added
\* The body or the commit raised, rollback was called, the exception went on
\* to the caller and the table is as it was.
DbEndedRolledBack(kinds) ==
    /\ db.outcome = "raised"
    /\ db.exc \in kinds
    /\ db.log \in {<<"rollback", "close">>, <<"commit failed", "rollback", "close">>}
    /\ requests = db.before
\* While the session is open it is not closed, and the table changes only
\* by a commit that succeeded.
DbOpenUntouched ==
    (db.pc # "idle") =>
        /\ \A i \in 1..Len(db.log) : db.log[i] # "close"
        /\ (requests # db.before) => (db.pc = "close" /\ db.log = <<"commit">>)

ConcField == "cloud_provider"
ConcValue == PyStr(aws)
ConcTickSteps == {session_expiry_hours + 1}

\* The pcs at which the local `session` refers to the object of th[t].sid.
HoldingPcs == {"L79", "L84", "L104"}
Holds(T, sid) == \E t \in Threads : T[t].pc \in HoldingPcs /\ T[t].sid = sid
\* The detached objects still referenced once the threads are T.
StillHeld(D, T) == [k \in {x \in DOMAIN D : Holds(T, x)} |-> D[k]]
\* The object the local `session` of a thread refers to.
SessionObject(sid) == IF sid \in DOMAIN sessions THEN sessions[sid] ELSE detached[sid]

\* del self._sessions[sid] by thread t, whose record becomes r.
DelEntry(t, sid, r) ==
    LET T == [th EXCEPT ![t] = r]
        D == [k \in DOMAIN detached \cup {sid} |->
                IF k = sid THEN sessions[sid] ELSE detached[k]]
    IN  /\ sessions' = DictDel(sessions, sid)
        /\ th' = T
        /\ detached' = StillHeld(D, T)

\* Thread t ends its call with `result`.
Finish(t, result) ==
    LET T == [th EXCEPT ![t] = IdleThread(th[t].calls, result)]
    IN  /\ th' = T
        /\ detached' = StillHeld(detached, T)

ConcTick ==
    /\ \E d \in ConcTickSteps : now + d <= MaxTime /\ now' = now + d
    /\ UNCHANGED <<sessions, nextId, call, ret, toolVars, histVars, auxVars, expired_ever, threadVars>>

\* A thread enters get_session, update_form_data, delete_session or
\* cleanup_expired_sessions.
Begin(t) ==
    /\ th[t].pc = "idle"
    /\ th[t].calls < MaxCalls
    /\ \/ \E op \in {"get_session", "update_form_data", "delete_session"}, sid \in SessionIds :
            th' = [th EXCEPT ![t] =
                     [IdleThread(th[t].calls + 1, NoResult) EXCEPT
                        !.op = op, !.sid = sid,
                        !.pc = IF op = "delete_session" THEN "L136" ELSE "L73"]]
       \/ th' = [th EXCEPT ![t] =
                   [IdleThread(th[t].calls + 1, NoResult) EXCEPT
                      !.op = "cleanup_expired_sessions", !.pc = "L164"]]
    /\ UNCHANGED <<now, sessions, nextId, call, ret, toolVars, histVars, auxVars, expired_ever, detached>>

\* create_session, lines 47-61: its one access to the store is the insertion
\* of the new entry.
CreateStep(t) ==
    /\ th[t].pc = "idle"
    /\ th[t].calls < MaxCalls
    /\ nextId <= MaxSessions
    /\ \E u \in Users :
         /\ sessions' = create_session(sessions, u, nextId, now).store
         /\ nextId' = nextId + 1
         /\ th' = [th EXCEPT ![t] = IdleThread(th[t].calls + 1, Returned("create_session", RetId(nextId)))]
    /\ UNCHANGED <<now, call, ret, toolVars, histVars, auxVars, expired_ever, detached>>

\* get_session line 73: if session_id not in self._sessions: return None
MembershipStep(t) ==
    /\ th[t].pc = "L73"
    /\ IF th[t].sid \notin DOMAIN sessions
       THEN Finish(t, Returned(th[t].op, IF th[t].op = "update_form_data" THEN RetBool(FALSE) ELSE RetNone))
       ELSE /\ th' = [th EXCEPT ![t].pc = "L76"]
            /\ UNCHANGED detached
    /\ UNCHANGED <<now, sessions, nextId, call, ret, toolVars, histVars, auxVars, expired_ever>>

\* get_session line 76: session = self._sessions[session_id]; KeyError when
\* the entry has been deleted since line 73.
LoadStep(t) ==
    /\ th[t].pc = "L76"
    /\ IF th[t].sid \notin DOMAIN sessions
       THEN Finish(t, Raised(th[t].op, "KeyError"))
       ELSE /\ th' = [th EXCEPT ![t].pc = "L79"]
            /\ UNCHANGED detached
    /\ UNCHANGED <<now, sessions, nextId, call, ret, toolVars, histVars, auxVars, expired_ever>>

\* get_session line 79: if self._is_session_expired(session)
ExpiryStep(t) ==
    /\ th[t].pc = "L79"
    /\ LET T == [th EXCEPT ![t].pc =
                    IF _is_session_expired(SessionObject(th[t].sid), now) THEN "L136" ELSE "L84"]
       IN  /\ th' = T
           /\ detached' = StillHeld(detached, T)
    /\ UNCHANGED <<now, sessions, nextId, call, ret, toolVars, histVars, auxVars, expired_ever>>

\* delete_session line 136: if session_id in self._sessions
DeleteCheckStep(t) ==
    /\ th[t].pc = "L136"
    /\ IF th[t].sid \in DOMAIN sessions
       THEN th' = [th EXCEPT ![t].pc = "L137"]
       ELSE th' = [th EXCEPT ![t] = IdleThread(th[t].calls,
                      Returned(th[t].op, CASE th[t].op = "delete_session" -> RetBool(FALSE)
                                 [] th[t].op = "update_form_data" -> RetBool(FALSE)
                                 [] OTHER -> RetNone))]
    /\ UNCHANGED <<now, sessions, nextId, call, ret, toolVars, histVars, auxVars, expired_ever, detached>>

\* delete_session line 137: del self._sessions[session_id]; KeyError when
\* the entry has been deleted since line 136.
DeleteStep(t) ==
    /\ th[t].pc = "L137"
    /\ IF th[t].sid \notin DOMAIN sessions
       THEN /\ Finish(t, Raised(th[t].op, "KeyError"))
            /\ UNCHANGED sessions
       ELSE DelEntry(t, th[t].sid, IdleThread(th[t].calls,
                      Returned(th[t].op, CASE th[t].op = "delete_session" -> RetBool(TRUE)
                                 [] th[t].op = "update_form_data" -> RetBool(FALSE)
                                 [] OTHER -> RetNone)))
    /\ UNCHANGED <<now, nextId, call, ret, toolVars, histVars, auxVars, expired_ever>>

\* session.<attr> = ... on the object the thread holds, in the store or not.
WriteObject(sid, obj) ==
    IF sid \in DOMAIN sessions
    THEN /\ sessions' = [sessions EXCEPT ![sid] = obj]
         /\ UNCHANGED detached
    ELSE /\ detached' = [detached EXCEPT ![sid] = obj]
         /\ UNCHANGED sessions

\* get_session line 84: session.last_accessed = datetime.now(); return session
RefreshStep(t) ==
    /\ th[t].pc = "L84"
    /\ LET sid == th[t].sid
           obj == [SessionObject(sid) EXCEPT !.last_accessed = now]
       IN  IF th[t].op = "update_form_data"
           THEN /\ WriteObject(sid, obj)
                /\ th' = [th EXCEPT ![t].pc = "L104"]
           ELSE LET T == [th EXCEPT ![t] = IdleThread(th[t].calls, Returned(th[t].op, RetSession(obj)))]
                IN  /\ th' = T
                    /\ IF sid \in DOMAIN sessions
                       THEN /\ sessions' = [sessions EXCEPT ![sid] = obj]
                            /\ detached' = StillHeld(detached, T)
                       ELSE /\ detached' = StillHeld([detached EXCEPT ![sid] = obj], T)
                            /\ UNCHANGED sessions
    /\ UNCHANGED <<now, nextId, call, ret, toolVars, histVars, auxVars, expired_ever>>

\* update_form_data lines 104-108: the two writes to the held object.
WriteStep(t) ==
    /\ th[t].pc = "L104"
    /\ LET sid == th[t].sid
           obj == [SessionObject(sid) EXCEPT
                      !.form_data = DictSet(@, ConcField, ConcValue),
                      !.last_accessed = now]
           T == [th EXCEPT ![t] = IdleThread(th[t].calls, Returned(th[t].op, RetBool(TRUE)))]
       IN  /\ th' = T
           /\ IF sid \in DOMAIN sessions
              THEN /\ sessions' = [sessions EXCEPT ![sid] = obj]
                   /\ detached' = StillHeld(detached, T)
              ELSE /\ detached' = StillHeld([detached EXCEPT ![sid] = obj], T)
                   /\ UNCHANGED sessions
    /\ UNCHANGED <<now, nextId, call, ret, toolVars, histVars, auxVars, expired_ever>>

\* cleanup_expired_sessions lines 162-164: the iterator over the dict's items
\* is created; it remembers the dict's size.
IterStartStep(t) ==
    /\ th[t].pc = "L164"
    /\ th' = [th EXCEPT ![t].pc = "L164next",
                        ![t].it_used = Cardinality(DOMAIN sessions),
                        ![t].it_left = Cardinality(DOMAIN sessions),
                        ![t].it_pos = 1]
    /\ UNCHANGED <<now, sessions, nextId, call, ret, toolVars, histVars, auxVars, expired_ever, detached>>

\* Lines 164-166, one turn of the loop.  The dict iterator raises RuntimeError
\* when the dict's size differs from the size it remembers, or when it finds
\* an entry after having yielded as many as the dict held.
IterNextStep(t) ==
    /\ th[t].pc = "L164next"
    /\ LET rest == {k \in DOMAIN sessions : k >= th[t].it_pos}
           k == CHOOSE x \in rest : \A y \in rest : x <= y
       IN  IF Cardinality(DOMAIN sessions) # th[t].it_used
           THEN th' = [th EXCEPT ![t] = IdleThread(th[t].calls, Raised(th[t].op, "RuntimeError"))]
           ELSE IF rest = {}
           THEN th' = [th EXCEPT ![t].pc = "L168", ![t].it_pos = 1]
           ELSE IF th[t].it_left = 0
           THEN th' = [th EXCEPT ![t] = IdleThread(th[t].calls, Raised(th[t].op, "RuntimeError"))]
           ELSE th' = [th EXCEPT
                    ![t].it_pos = k + 1,
                    ![t].it_left = @ - 1,
                    ![t].expired_sessions =
                        IF _is_session_expired(sessions[k], now) THEN Append(@, k) ELSE @]
    /\ UNCHANGED <<now, sessions, nextId, call, ret, toolVars, histVars, auxVars, expired_ever, detached>>

\* Lines 168-174: del self._sessions[session_id] for each id collected
\* (it_pos is the index of the next one), then return how many were
\* collected.  KeyError when an entry has been deleted since it was collected.
SweepDeleteStep(t) ==
    /\ th[t].pc = "L168"
    /\ IF th[t].it_pos > Len(th[t].expired_sessions)
       THEN /\ Finish(t, Returned(th[t].op, RetInt(Len(th[t].expired_sessions))))
            /\ UNCHANGED sessions
       ELSE LET sid == th[t].expired_sessions[th[t].it_pos]
            IN  IF sid \notin DOMAIN sessions
                THEN /\ Finish(t, Raised(th[t].op, "KeyError"))
                     /\ UNCHANGED sessions
                ELSE DelEntry(t, sid, [th[t] EXCEPT !.it_pos = @ + 1])
    /\ UNCHANGED <<now, nextId, call, ret, toolVars, histVars, auxVars, expired_ever>>

ConcNext ==
    \/ ConcTick
    \/ \E t \in Threads :
         \/ Begin(t)
         \/ CreateStep(t)
         \/ MembershipStep(t)
         \/ LoadStep(t)
         \/ ExpiryStep(t)
         \/ DeleteCheckStep(t)
         \/ DeleteStep(t)
         \/ RefreshStep(t)
         \/ WriteStep(t)
         \/ IterStartStep(t)
         \/ IterNextStep(t)
         \/ SweepDeleteStep(t)

ConcSpec == Init /\ [][ConcNext]_vars

(***************************************************************************)
(* Properties of the concurrent calls.                                     *)
(***************************************************************************)
\* C7: a sweep interleaved with create_session, delete_session or
\* get_session of another thread never fails: it raises neither the dict
\* iterator's RuntimeError nor a KeyError for an id it collected, and so
\* returns the count of the sessions it removed.  The code takes no lock: a
\* create during the loop of line 164 ends the sweep with RuntimeError.
C7_SweepNeverFails ==
    \A t \in Threads :
        th[t].result.op = "cleanup_expired_sessions" =>
            /\ th[t].result.exc = ""
            /\ th[t].result.ret.kind = "int"

\* C8: every get_session, update_form_data and delete_session call on a
\* session id returns a normal result, the one it has in some serial order of
\* the calls; none fails between its membership check and its use of the
\* entry.  A call that raises has no result in any serial order: the code's
\* get_session raises KeyError at line 76 when the entry is deleted after
\* line 73.
C8_CallsReturnNormally ==
    \A t \in Threads :
        th[t].result.op \in {"get_session", "update_form_data", "delete_session"} =>
            th[t].result.exc = ""

=============================================================================
